---- MODULE Spec2Model ----
(***************************************************************************)
(* A model of the Mosaic templating core: template acquisition, the        *)
(* repaint walk over the slot descriptors ("memories"), the change         *)
(* detector, the commit engine and the keyed-list reconciler.              *)
(*                                                                         *)
(* JavaScript values are records [t, v, w]: t is the shape of the value,   *)
(* v and w are small integers whose meaning depends on t:                  *)
(*   undefined, null       v = w = 0                                       *)
(*   boolean               v = 1 for true, 0 for false                     *)
(*   number                v = the number                                  *)
(*   string                v = index into StrTable                         *)
(*   function              v = id of the source text, w = id of the closure*)
(*   mosaic                v = instance id (iid)                           *)
(*   template              v = id of the stringified value list            *)
(*   array, keyed, object  v = id of the content                           *)
(***************************************************************************)
EXTENDS Integers, Sequences, FiniteSets, TLC

\* ------------------------------------------------------------- bounds
MaxSlots == 2
MaxAssigns == 2
MaxConnects == 1
MaxLen == 2
MaxRounds == 1
MaxItems == 2
MaxRepaints == 2

\* ------------------------------------------------------------- values
Undefined == [t |-> "undefined", v |-> 0, w |-> 0]
Null == [t |-> "null", v |-> 0, w |-> 0]
Bool(b) == [t |-> "boolean", v |-> IF b THEN 1 ELSE 0, w |-> 0]
Num(n) == [t |-> "number", v |-> n, w |-> 0]
Str(i) == [t |-> "string", v |-> i, w |-> 0]
Fn(src, closure) == [t |-> "function", v |-> src, w |-> closure]
MosaicVal(iid) == [t |-> "mosaic", v |-> iid, w |-> 0]
TemplateVal(vals) == [t |-> "template", v |-> vals, w |-> 0]
ArrayVal(id) == [t |-> "array", v |-> id, w |-> 0]
KeyedVal(id) == [t |-> "keyed", v |-> id, w |-> 0]
ObjectVal(json) == [t |-> "object", v |-> json, w |-> 0]

\* The texts of the string values of the model: "", "a", "true", "5".
StrTable == <<"", "a", "true", "5">>
NumText == [n \in 0 .. 9 |-> <<"0", "1", "2", "3", "4", "5", "6", "7", "8", "9">>[n + 1]]
FnText == <<"fn-source-1", "fn-source-2">>
ObjText == <<"{}", "{\"k\":1}">>

\* The component type and the injected data of the component instances that
\* occur as values: instances 1..4 are of type 1, the others of type 2;
\* odd instances were given injected data 1, even ones injected data 2.
InstTid(iid) == IF iid <= 4 THEN 1 ELSE 2
InstInjected(iid) == IF iid % 2 = 1 THEN 1 ELSE 2

\* JavaScript truthiness: !x is true for undefined, null, false, 0 and "".
Falsy(x) ==
    \/ x.t \in {"undefined", "null"}
    \/ x.t = "boolean" /\ x.v = 0
    \/ x.t = "number" /\ x.v = 0
    \/ x.t = "string" /\ StrTable[x.v] = ""

\* '' + x, the string conversion the detector uses.
ToStr(x) ==
    CASE x.t = "undefined" -> "undefined"
      [] x.t = "null" -> "null"
      [] x.t = "boolean" -> IF x.v = 1 THEN "true" ELSE "false"
      [] x.t = "number" -> NumText[x.v]
      [] x.t = "string" -> StrTable[x.v]
      [] x.t = "function" -> FnText[x.v]
      [] x.t = "template" -> "[object Object]"
      [] x.t = "mosaic" -> "[object HTMLElement]"
      [] x.t = "array" -> ""
      [] OTHER -> "[object Object]"

\* JSON.stringify(x); the text "undefined" stands for the value undefined
\* that JSON.stringify returns for undefined and for functions.
JsonStringify(x) ==
    CASE x.t = "undefined" -> "undefined"
      [] x.t = "function" -> "undefined"
      [] x.t = "null" -> "null"
      [] x.t = "boolean" -> IF x.v = 1 THEN "true" ELSE "false"
      [] x.t = "number" -> NumText[x.v]
      [] x.t = "string" -> <<"\"\"", "\"a\"", "\"true\"", "\"5\"">>[x.v]
      [] x.t = "object" -> ObjText[x.v]
      [] x.t = "mosaic" -> IF InstTid(x.v) = 1 THEN "{\"tid\":1}" ELSE "{\"tid\":2}"
      [] OTHER -> "{}"

\* old === new for two values.
StrictEq(x, y) ==
    IF x.t # y.t THEN FALSE
    ELSE IF x.t = "function" THEN x.w = y.w
    ELSE x.v = y.v

\* isPrimitive of util: string, number, boolean, null, undefined.
IsPrimitive(x) == x.t \in {"string", "number", "boolean", "null", "undefined"}

\* isKeyedArray of util: the value carries the keyed-array tag.
IsKeyedArray(x) == x.t = "keyed"

\* typeof x === 'object'
TypeofObject(x) == x.t \in {"null", "mosaic", "template", "array", "keyed", "object"}

\* ---------------------------------------------------- change detector
\* Memory.changed(oldValue, newValue, initiallyRendered): whether the slot
\* has to be committed.
ChangedAlways(oldValue, newValue, initiallyRendered) == TRUE

Changed(oldValue, newValue, initiallyRendered) ==
    IF Falsy(oldValue) \/ initiallyRendered THEN TRUE
    ELSE IF IsPrimitive(newValue) THEN ~StrictEq(oldValue, newValue)
    ELSE IF newValue.t = "function" THEN ToStr(oldValue) = ToStr(newValue)
    ELSE IF newValue.t = "array" THEN TRUE
    ELSE IF IsKeyedArray(newValue) THEN TRUE
    ELSE IF TypeofObject(newValue) THEN
        IF oldValue.t = "mosaic" THEN
            IF Falsy(newValue) THEN TRUE
            ELSE IF newValue.t # "mosaic" THEN TRUE
            ELSE IF InstTid(newValue.v) # InstTid(oldValue.v) THEN TRUE
            ELSE InstInjected(oldValue.v) # InstInjected(newValue.v)
        ELSE IF newValue.t = "template" THEN
            IF oldValue.t = "template" THEN oldValue.v # newValue.v ELSE TRUE
        ELSE JsonStringify(oldValue) # JsonStringify(newValue)
    ELSE FALSE

\* Whether Memory.changed calls cleanUpMosaic(oldValue) on its way: in the
\* branch of object values, for an old component instance that the new value
\* does not match.
CleansUp(oldValue, newValue, initiallyRendered) ==
    IF Falsy(oldValue) \/ initiallyRendered THEN FALSE
    ELSE IF IsPrimitive(newValue) THEN FALSE
    ELSE IF newValue.t = "function" THEN FALSE
    ELSE IF newValue.t = "array" THEN FALSE
    ELSE IF IsKeyedArray(newValue) THEN FALSE
    ELSE IF TypeofObject(newValue) THEN
        IF oldValue.t = "mosaic" THEN
            IF Falsy(newValue) THEN TRUE
            ELSE IF newValue.t # "mosaic" THEN TRUE
            ELSE IF InstTid(newValue.v) # InstTid(oldValue.v) THEN TRUE
            ELSE InstInjected(oldValue.v) # InstInjected(newValue.v)
        ELSE FALSE
    ELSE FALSE

\* ------------------------------------------------------------- state
VARIABLES
    documentIds,    \* the ids of the elements attached to the document
    memories,       \* the slot descriptors of the component's template
    data,           \* the tracked data of the component, one property per slot
    oldValues,      \* this.oldValues: the value array of the last repaint
    dom,            \* per slot, the DOM at the place the slot addresses
    connects,       \* calls of connectedCallback
    assigns,        \* assignments to tracked data properties
    repaints,       \* calls of repaint()
    compiles,       \* compile-and-discover passes made by getTemplate
    seenData,       \* the data the view function saw at its last call
    lastCommitted,  \* the slots committed by the last repaint
    lastSame,       \* whether the last repaint had new values = old values
    lastForced,     \* the slots the last repaint passed the force flag for
    lastLength,     \* the length of the value array of the last repaint, -1 before
    lastError,      \* the error the last repaint ended with, "none" if it returned
    lastCommit,     \* per slot, the value most recently committed
    created,        \* per nested instance, calls of its created hook
    mounts,         \* per nested instance, times it was put into the DOM
    chPrior,        \* change detector alone: the value the last render supplied
    chFirst,        \* ... whether the last call was the first render
    chOld,          \* ... the old value of the last call
    chNew,          \* ... the new value of the last call
    chForce,        \* ... the force flag of the last call
    chDirty,        \* ... the answer of the last call
    chCleaned,      \* ... whether the last call tore the old instance down
    kDom,           \* keyed list: the child nodes of the parent of the list
    kOld,           \* ... the keyed array the caller holds as the old value
    kRounds,        \* ... incremental commits made
    kLast,          \* ... the last commit: its inputs, its diff, its outcome
    cItems,         \* compiler: the template literal of the view, item by item
    cStrings,       \* ... the literal segments of the view (strings)
    cHtml,          \* ... the markup buildHTML made of them
    cMemories,      \* ... the memories memorize found in the parsed markup
    cPhase,         \* ... "view", "compiled" or "memorized"
    cValues,        \* ... the values the view interpolates (the id of the array)
    cDefined,       \* ... whether the element name is a defined custom element
    cFirst,         \* ... the markup and memories of the compilation before
    rMems,          \* repaint call stack: the slot descriptors of the component
    rData,          \* ... its tracked data, one property per slot
    rOldValues,     \* ... this.oldValues
    rStack,         \* ... the calls of repaint() that have not returned
    rSets,          \* ... assignments to tracked data properties so far
    rReturned,      \* ... calls of repaint() that have returned
    rLastView,      \* ... the value array the last call of the view returned
    lItems,         \* Mosaic.list: the items given
    lKey,           \* ... the key function given
    lMap,           \* ... the map function given
    lList,          \* ... the keyed array returned, once it is
    lRead,          \* ... what commitKeyedArray reads from it, once it has
    fSlots,         \* nested flush: the number of slots of the parent
    fReceived,      \* ... per nested component, whether it has a received hook
    fPos,           \* ... the slot the walk of _repaint is at
    fNested,        \* ... nestedNodes: the nested components touched, in order
    fBatches,       \* ... per nested component, its pending batches
    fEnqueued,      \* ... per nested component, what the walk has enqueued
    fNext,          \* ... the index in nestedNodes the flush loop is at
    fPassed,        \* ... per nested component, what its calls were handed
    fPhase,         \* ... "walk", "flush", "returned" or "thrown"
    fLog,           \* ... the slots walked and the calls made, in order
    oMems,          \* slot descriptors: the slot list of the compiled template
    oFound,         \* ... the slot list as discovery created it
    oModes,         \* ... how each repaint so far derived its paths, in order
    oPointers       \* ... per slot, the paths the last repaint walked

compVars == <<documentIds, memories, data, oldValues, dom, connects, assigns,
              repaints, compiles, seenData, lastCommitted, lastSame, lastForced,
              lastLength, lastError, lastCommit, created, mounts>>

chVars == <<chPrior, chFirst, chOld, chNew, chForce, chDirty, chCleaned>>

keyVars == <<kDom, kOld, kRounds, kLast>>

cmpVars == <<cItems, cStrings, cHtml, cMemories, cPhase, cValues, cDefined, cFirst>>

stackVars == <<rMems, rData, rOldValues, rStack, rSets, rReturned, rLastView>>

listVars == <<lItems, lKey, lMap, lList, lRead>>

flushVars == <<fSlots, fReceived, fPos, fNested, fBatches, fEnqueued, fPassed, fNext, fPhase,
              fLog>>

slotVars == <<oMems, oFound, oModes, oPointers>>

auxVars == <<stackVars, listVars, flushVars, slotVars>>

\* What the actions on one group of variables leave alone.
notStack == <<compVars, chVars, keyVars, cmpVars, listVars, flushVars, slotVars>>
notList == <<compVars, chVars, keyVars, cmpVars, stackVars, flushVars, slotVars>>
notFlush == <<compVars, chVars, keyVars, cmpVars, stackVars, listVars, slotVars>>
notSlots == <<compVars, chVars, keyVars, cmpVars, stackVars, listVars, flushVars>>

vars == <<compVars, chVars, keyVars, cmpVars, auxVars>>

\* The type id (tid) of the component type under repaint.
TemplateTid == "tid-1"

Marker == [t |-> "marker", v |-> 0, w |-> 0]
NoCommit == [t |-> "none", v |-> 0, w |-> 0]

NodeMemory(i) == [type |-> "node", steps |-> <<i - 1>>, name |-> ""]
AttributeMemory(i, n) == [type |-> "attribute", steps |-> <<i - 1>>, name |-> n]
EventMemory(i, n) == [type |-> "event", steps |-> <<i - 1>>, name |-> n]

\* The descriptors slot i of a template may have, in a fixed order.
SlotMemories(i) ==
    <<NodeMemory(i), AttributeMemory(i, "disabled"), AttributeMemory(i, "class"),
      EventMemory(i, "onclick")>>

\* The slot lists of the model: up to MaxSlots slots, whose kinds follow each
\* other in the order of SlotMemories, starting from any of them.
SlotLists ==
    {[i \in 1 .. n |-> SlotMemories(i)[((i + r) % 4) + 1]] : n \in 1 .. MaxSlots, r \in 0 .. 3}

\* The nested component instances a node slot may show: two per slot.
Instances == 1 .. 2 * MaxSlots
SlotInstances(i) == {2 * i - 1, 2 * i}

\* The values a view may produce for a slot.
SlotValues(mem, i) ==
    CASE mem.type = "attribute" -> {Bool(TRUE), Bool(FALSE), Num(0), Num(5), Str(3)}
      [] mem.type = "event" -> {Fn(1, 1), Fn(1, 2), Fn(2, 3)}
      [] OTHER -> {Str(2), Num(0)} \cup {MosaicVal(k) : k \in SlotInstances(i)}

\* isBooleanAttribute of util.
IsBooleanAttribute(name) == name \in {"disabled", "checked", "hidden", "selected"}

\* view(self).values: the view shows one data property in each slot.
View(d) == [i \in 1 .. Len(memories) |-> d[i]]

\* oldValues[i], undefined past the end of the array.
At(values, i) == IF i \in 1 .. Len(values) THEN values[i] ELSE Undefined

\* ------------------------------------------------ template acquisition
\* getTemplate: document.getElementById(component.tid) finds the template
\* only among the elements attached to the document.
TemplateFound(docIds) == TemplateTid \in docIds

\* The number of compile-and-discover passes one call of getTemplate makes.
GetTemplateCompiles(docIds) == IF TemplateFound(docIds) THEN 0 ELSE 1

\* The ids in the document after getTemplate: the new template element gets
\* its id and its markup and is returned; it is not attached to the document.
GetTemplateDocument(docIds) == docIds

\* -------------------------------------------------------- commit engine
\* Memory.commitAttribute on the addressed element; slot is dom[i].
CommitAttributeTruthy(mem, slot, newValue) ==
    IF IsBooleanAttribute(mem.name)
    THEN IF ~Falsy(newValue)
         THEN [slot EXCEPT !.present = TRUE, !.text = "true"]
         ELSE [slot EXCEPT !.present = FALSE, !.text = ""]
    ELSE [slot EXCEPT !.present = TRUE, !.text = ToStr(newValue)]

CommitAttribute(mem, slot, newValue) ==
    IF IsBooleanAttribute(mem.name)
    THEN IF newValue = Bool(TRUE)
         THEN [slot EXCEPT !.present = TRUE, !.text = "true"]
         ELSE [slot EXCEPT !.present = FALSE, !.text = ""]
    ELSE [slot EXCEPT !.present = TRUE, !.text = ToStr(newValue)]

\* Memory.commitEvent: the earlier listener is removed, the new one bound and
\* added, the placeholder attribute removed.
\* slot.handler is eventHandlers[name] of the node (<<>> while there is none),
\* slot.listeners the listeners of the node for the event, in the order they
\* were added.
Bind(value) == [fn |-> value, self |-> "component"]

RemoveEventListener(listeners, listener) ==
    IF \E p \in 1 .. Len(listeners) : listeners[p] = listener
    THEN LET p == CHOOSE p \in 1 .. Len(listeners) : listeners[p] = listener
         IN  SubSeq(listeners, 1, p - 1) \o SubSeq(listeners, p + 1, Len(listeners))
    ELSE listeners

CommitEventKeeping(mem, slot, value) ==
    [slot EXCEPT !.handler = <<Bind(value)>>,
                 !.listeners = Append(slot.listeners, Bind(value)),
                 !.present = FALSE, !.text = ""]

CommitEvent(mem, slot, value) ==
    LET kept == IF slot.handler # <<>>
                THEN RemoveEventListener(slot.listeners, slot.handler[1])
                ELSE slot.listeners
    IN  [slot EXCEPT !.handler = <<Bind(value)>>,
                     !.listeners = Append(kept, Bind(value)),
                     !.present = FALSE, !.text = ""]

\* Memory.commitNode, the DOM part: child.replaceWith(the value).
CommitNode(mem, slot, value) == [slot EXCEPT !.node = value]

\* Memory.commit: dispatch on the type of the memory.
Commit(mem, slot, newValue) ==
    CASE mem.type = "node" -> CommitNode(mem, slot, newValue)
      [] mem.type = "attribute" -> CommitAttribute(mem, slot, newValue)
      [] mem.type = "event" -> CommitEvent(mem, slot, newValue)
      [] OTHER -> slot

\* Calls of created() that committing value into a node slot makes for
\* instance k: the element put into the connected parent runs its
\* connectedCallback, which ends in created(), and commitNode then calls
\* value.created() itself.
CreatedCalls(mem, newValue, k) ==
    IF mem.type = "node" /\ newValue = MosaicVal(k)
    THEN (IF connects > 0 THEN 1 ELSE 0) + 1
    ELSE 0

\* Whether committing value into the slot mounts instance k: puts its element
\* where it was not.
Mounts(mem, slot, newValue, k) ==
    mem.type = "node" /\ newValue = MosaicVal(k) /\ slot.node # MosaicVal(k)

\* ------------------------------------------------------------- repaint
\* _repaint, alwaysUpdateFunction: the force flag the walk passes to the
\* change detector for a slot.
AlwaysUpdateNever(mem) == FALSE

AlwaysUpdate(mem) == mem.type = "node"

\* _repaint: the slots whose value the change detector reports dirty.
DirtySlots(mems, oldVals, newVals) ==
    {i \in 1 .. Len(mems) : Changed(At(oldVals, i), At(newVals, i), AlwaysUpdate(mems[i]))}

\* The slot whose values instance k occurs in.
SlotOf(k) == (k + 1) \div 2

\* Whether committing the value into the slot throws: commitEvent calls
\* value.bind, a TypeError for a value that is no function.
CommitThrows(mem, value) == mem.type = "event" /\ value.t # "function"

\* repaint() with the value array the view returned: acquire the template,
\* walk the slots, keep the new values as the old ones. A commit that throws
\* ends the walk and the repaint there. docIds is the document at the call,
\* acquired the compile passes the calling handler has made before it.
RepaintValues(newValues, d, docIds, acquired) ==
    LET changed == DirtySlots(memories, oldValues, newValues)
        failing == {i \in changed : CommitThrows(memories[i], At(newValues, i))}
        dirty == {i \in changed : \A j \in failing : i < j}
    IN  /\ compiles' = compiles + acquired + GetTemplateCompiles(docIds)
        /\ documentIds' = GetTemplateDocument(docIds)
        /\ repaints' = repaints + 1
        /\ seenData' = d
        /\ dom' = [i \in 1 .. Len(memories) |->
                     IF i \in dirty THEN Commit(memories[i], dom[i], At(newValues, i))
                     ELSE dom[i]]
        /\ lastCommit' = [i \in 1 .. Len(memories) |->
                     IF i \in dirty THEN At(newValues, i) ELSE lastCommit[i]]
        /\ created' = [k \in Instances |-> created[k] +
                     IF SlotOf(k) \in dirty
                     THEN CreatedCalls(memories[SlotOf(k)], At(newValues, SlotOf(k)), k)
                     ELSE 0]
        /\ mounts' = [k \in Instances |-> mounts[k] +
                     IF /\ SlotOf(k) \in dirty
                        /\ Mounts(memories[SlotOf(k)], dom[SlotOf(k)],
                                  At(newValues, SlotOf(k)), k)
                     THEN 1 ELSE 0]
        /\ lastCommitted' = dirty
        /\ lastSame' = (oldValues = newValues)
        /\ lastForced' = {i \in 1 .. Len(memories) : AlwaysUpdate(memories[i])}
        /\ lastLength' = Len(newValues)
        /\ lastError' = (IF failing = {} THEN "none" ELSE "TypeError")
        /\ oldValues' = (IF failing = {} THEN newValues ELSE oldValues)

\* repaint(): the view shows the data.
Repaint(d, docIds, acquired) == RepaintValues(View(d), d, docIds, acquired)

\* connectedCallback: acquire the template, clone it into the element if the
\* element is empty, repaint, call created.
Connect ==
    /\ connects < MaxConnects
    /\ connects' = connects + 1
    /\ Repaint(data, GetTemplateDocument(documentIds), GetTemplateCompiles(documentIds))
    /\ UNCHANGED <<memories, data, assigns, chVars, keyVars, cmpVars, auxVars>>

\* The setter of tracked data property i with the new value nv:
\* this.data[name] = nv; this.repaint().
SetWhenChanged(i, nv) ==
    /\ connects > 0
    /\ assigns < MaxAssigns
    /\ i \in 1 .. Len(memories)
    /\ nv \in SlotValues(memories[i], i)
    /\ assigns' = assigns + 1
    /\ data' = [data EXCEPT ![i] = nv]
    /\ IF data[i] # nv
       THEN Repaint(data', documentIds, 0)
       ELSE UNCHANGED <<documentIds, oldValues, dom, repaints, compiles, seenData,
                        lastCommitted, lastSame, lastForced, lastLength, lastError,
                        lastCommit, created, mounts>>
    /\ UNCHANGED <<memories, connects, chVars, keyVars, cmpVars, auxVars>>

Set(i, nv) ==
    /\ connects > 0
    /\ assigns < MaxAssigns
    /\ i \in 1 .. Len(memories)
    /\ nv \in SlotValues(memories[i], i)
    /\ assigns' = assigns + 1
    /\ data' = [data EXCEPT ![i] = nv]
    /\ Repaint(data', documentIds, 0)
    /\ UNCHANGED <<memories, connects, chVars, keyVars, cmpVars, auxVars>>

\* The element the template is cloned into: every attribute slot holds the
\* marker in its attribute, every node slot is a marker comment.
TemplateClone(mems) ==
    [i \in 1 .. Len(mems) |->
        [present |-> mems[i].type # "node",
         text |-> IF mems[i].type # "node" THEN "marker" ELSE "",
         node |-> IF mems[i].type = "node" THEN Marker ELSE NoCommit,
         handler |-> <<>>,
         listeners |-> <<>>]]

\* The change detector on its own is not in use.
ChangedIdle ==
    /\ chPrior = NoCommit
    /\ chFirst = FALSE
    /\ chOld = NoCommit
    /\ chNew = NoCommit
    /\ chForce = FALSE
    /\ chDirty = FALSE
    /\ chCleaned = FALSE

\* No keyed list is being committed.
KeyedIdle ==
    /\ kDom = <<>>
    /\ kOld = <<>>
    /\ kRounds = 0
    /\ kLast = <<>>

\* No template is being compiled.
CompilerIdle ==
    /\ cItems = <<>>
    /\ cStrings = <<>>
    /\ cHtml = <<>>
    /\ cMemories = <<>>
    /\ cPhase = "idle"
    /\ cValues = 0
    /\ cDefined = FALSE
    /\ cFirst = <<>>

\* No call of repaint() is being followed.
StackIdle ==
    /\ rMems = <<>>
    /\ rData = <<>>
    /\ rOldValues = <<>>
    /\ rStack = <<>>
    /\ rSets = 0
    /\ rReturned = 0
    /\ rLastView = <<>>

\* Mosaic.list is not in use.
ListIdle ==
    /\ lItems = <<>>
    /\ lKey = 0
    /\ lMap = 0
    /\ lList = <<>>
    /\ lRead = <<>>

\* No flush of nested components is being followed.
FlushIdle ==
    /\ fSlots = 0
    /\ fReceived = <<>>
    /\ fPos = 0
    /\ fNested = <<>>
    /\ fBatches = <<>>
    /\ fEnqueued = <<>>
    /\ fPassed = <<>>
    /\ fNext = 0
    /\ fPhase = "idle"
    /\ fLog = <<>>

\* No slot list is being followed through repaints.
SlotsIdle ==
    /\ oMems = <<>>
    /\ oFound = <<>>
    /\ oModes = <<>>
    /\ oPointers = <<>>

AuxIdle == StackIdle /\ ListIdle /\ FlushIdle /\ SlotsIdle

Init ==
    /\ documentIds = {}
    /\ memories \in SlotLists
    /\ data \in {d \in [1 .. Len(memories) -> UNION {SlotValues(memories[i], i) :
                                                     i \in 1 .. Len(memories)}] :
                   \A i \in 1 .. Len(memories) : d[i] \in SlotValues(memories[i], i)}
    /\ oldValues = <<>>
    /\ dom = TemplateClone(memories)
    /\ connects = 0
    /\ assigns = 0
    /\ repaints = 0
    /\ compiles = 0
    /\ seenData = <<>>
    /\ lastCommitted = {}
    /\ lastSame = FALSE
    /\ lastForced = {}
    /\ lastLength = -1
    /\ lastError = "none"
    /\ lastCommit = [i \in 1 .. Len(memories) |-> NoCommit]
    /\ created = [k \in Instances |-> 0]
    /\ mounts = [k \in Instances |-> 0]
    /\ ChangedIdle
    /\ KeyedIdle
    /\ CompilerIdle
    /\ AuxIdle

Next ==
    \/ Connect
    \/ \E i \in 1 .. MaxSlots :
          \E nv \in UNION {SlotValues(SlotMemories(i)[j], i) : j \in 1 .. 4} :
              Set(i, nv)

Spec == Init /\ [][Next]_vars

\* ------------------------------------ a view that does not fit the slots
\* The value arrays of a view whose literal is not the one the template was
\* compiled from: up to one value more than there can be slots.
ViewValues ==
    UNION {[1 .. n -> {Str(2), Fn(1, 1)}] : n \in 0 .. MaxSlots + 1}

\* repaint() of the connected component when its view returns values.
RepaintView(values) ==
    /\ connects > 0
    /\ repaints < MaxConnects + MaxAssigns
    /\ Len(values) # Len(memories)
    /\ RepaintValues(values, data, documentIds, 0)
    /\ UNCHANGED <<memories, data, connects, assigns, chVars, keyVars, cmpVars, auxVars>>

NextMismatch ==
    \/ Connect
    \/ \E values \in ViewValues : RepaintView(values)

SpecMismatch == Init /\ [][NextMismatch]_vars

\* --------------------------------------- the change detector on its own
\* The values the detector is called with.
DetectorValues ==
    {Undefined, Null, Bool(TRUE), Bool(FALSE), Num(0), Num(5), Num(6),
     Str(1), Str(2), Str(4), Fn(1, 1), Fn(1, 2), Fn(2, 3),
     MosaicVal(1), MosaicVal(2), MosaicVal(3), MosaicVal(5),
     TemplateVal(1), TemplateVal(2), ArrayVal(1), KeyedVal(1),
     ObjectVal(1), ObjectVal(2)}

\* No component is under repaint.
ComponentIdle ==
    /\ documentIds = {}
    /\ memories = <<>>
    /\ data = <<>>
    /\ oldValues = <<>>
    /\ dom = <<>>
    /\ connects = 0
    /\ assigns = 0
    /\ repaints = 0
    /\ compiles = 0
    /\ seenData = <<>>
    /\ lastCommitted = {}
    /\ lastSame = FALSE
    /\ lastForced = {}
    /\ lastLength = -1
    /\ lastError = "none"
    /\ lastCommit = <<>>
    /\ created = [k \in Instances |-> 0]
    /\ mounts = [k \in Instances |-> 0]

\* One render of a slot: the detector is called with the value the render
\* before supplied (undefined at the first render) and the new value, and the
\* caller keeps the new value as the old value of the next render.
Render(newValue, force) ==
    /\ chFirst' = (chPrior = NoCommit)
    /\ chOld' = (IF chPrior = NoCommit THEN Undefined ELSE chPrior)
    /\ chNew' = newValue
    /\ chForce' = force
    /\ chDirty' = Changed(chOld', newValue, force)
    /\ chCleaned' = CleansUp(chOld', newValue, force)
    /\ chPrior' = newValue
    /\ UNCHANGED <<compVars, keyVars, cmpVars, auxVars>>

InitChanged == ComponentIdle /\ ChangedIdle /\ KeyedIdle /\ CompilerIdle /\ AuxIdle

NextChanged ==
    \E newValue \in DetectorValues : \E force \in BOOLEAN :
        Render(newValue, force)

SpecChanged == InitChanged /\ [][NextChanged]_vars

\* ------------------------------------------------ the keyed reconciler
\* The keys of the model, and the keyed arrays: duplicate-free key sequences
\* of up to MaxLen keys. The item of key k is a component whose element is
\* the node ItemNode(k).
Keys == {"a", "b", "c", "d"}
Range(s) == {s[i] : i \in 1 .. Len(s)}
KeySeqs ==
    UNION {{s \in [1 .. n -> Keys] : \A i, j \in 1 .. n : i # j => s[i] # s[j]} :
             n \in 0 .. MaxLen}

\* The nodes of the parent of the list: a static sibling before the list
\* ("p"), one after it ("s"), the marker comment of the slot, the elements of
\* the items. NullNode is null, UndefinedNode is undefined.
StaticNode(id) == [kind |-> "static", key |-> id]
MarkerNode == [kind |-> "marker", key |-> ""]
ItemNode(k) == [kind |-> "item", key |-> k]
NullNode == [kind |-> "null", key |-> ""]

\* item.element of a nested-template item: the template element the markup
\* of the item was parsed into. It is not the clone that gets the key; the
\* field key only tells the template elements of the items apart.
TemplateElement(k) == [kind |-> "template", key |-> k]
UndefinedNode == [kind |-> "undefined", key |-> ""]

\* The value the caller holds before the first render.
UndefinedKeys == <<"undefined">>

\* The position of node among the child nodes, 0 if it is not among them.
PosOf(nodes, node) ==
    IF \E p \in 1 .. Len(nodes) : nodes[p] = node
    THEN CHOOSE p \in 1 .. Len(nodes) : nodes[p] = node
    ELSE 0

\* node.nextSibling and node.previousSibling; null for a detached node.
NextSibling(nodes, node) ==
    LET p == PosOf(nodes, node)
    IN  IF p = 0 \/ p = Len(nodes) THEN NullNode ELSE nodes[p + 1]

PreviousSibling(nodes, node) ==
    LET p == PosOf(nodes, node)
    IN  IF p <= 1 THEN NullNode ELSE nodes[p - 1]

RemoveAt(nodes, p) == SubSeq(nodes, 1, p - 1) \o SubSeq(nodes, p + 1, Len(nodes))
InsertAt(nodes, p, node) == SubSeq(nodes, 1, p - 1) \o <<node>> \o SubSeq(nodes, p, Len(nodes))

\* The keys of the key-tagged sibling nodes, in document order.
KeyedNodes(nodes) ==
    LET items == SelectSeq(nodes, LAMBDA n : n.kind = "item")
    IN  [i \in 1 .. Len(items) |-> items[i].key]

\* insertAfter(newNode, referenceNode) of util:
\* referenceNode.parentNode.insertBefore(newNode, referenceNode.nextSibling);
\* a TypeError when the reference is null or has no parent.
InsertAfter(nodes, newNode, referenceNode) ==
    IF PosOf(nodes, referenceNode) = 0
    THEN [nodes |-> nodes, threw |-> TRUE]
    ELSE [nodes |-> InsertAt(nodes, PosOf(nodes, referenceNode) + 1, newNode),
          threw |-> FALSE]

\* getArrayDifferences(oldKeys, newKeys) of util: the old keys that are not
\* among the new ones, and the new keys that are not among the old ones, each
\* with its index in the new array, collected by a scan of each array.
RECURSIVE ScanDeletions(_, _, _)
ScanDeletions(oldKeys, newKeys, i) ==
    IF i > Len(oldKeys) THEN <<>>
    ELSE (IF oldKeys[i] \in Range(newKeys) THEN <<>> ELSE <<oldKeys[i]>>)
         \o ScanDeletions(oldKeys, newKeys, i + 1)

RECURSIVE ScanAdditions(_, _, _)
ScanAdditions(oldKeys, newKeys, i) ==
    IF i > Len(newKeys) THEN <<>>
    ELSE (IF newKeys[i] \in Range(oldKeys) THEN <<>>
          ELSE <<[key |-> newKeys[i], index |-> i - 1]>>)
         \o ScanAdditions(oldKeys, newKeys, i + 1)

GetArrayDifferences(oldKeys, newKeys) ==
    [deletions |-> ScanDeletions(oldKeys, newKeys, 1),
     additions |-> ScanAdditions(oldKeys, newKeys, 1)]

\* commitKeyedArray, step 3: the differences between the old and new keys.
KeyedDiffSwapped(oldKeys, newKeys) == GetArrayDifferences(newKeys, oldKeys)

KeyedDiff(oldKeys, newKeys) == GetArrayDifferences(oldKeys, newKeys)

\* The deletions: document.querySelector finds the node of the key, if there
\* is one, and removes it.
RECURSIVE ApplyDeletions(_, _)
ApplyDeletions(nodes, deletions) ==
    IF deletions = <<>> THEN nodes
    ELSE LET p == PosOf(nodes, ItemNode(Head(deletions)))
         IN  ApplyDeletions(IF p = 0 THEN nodes ELSE RemoveAt(nodes, p), Tail(deletions))

\* The walk of index sibling hops from the node the slot addresses; the value
\* "throw" stands for the TypeError of reading nextSibling of undefined.
RECURSIVE WalkSiblings(_, _, _)
WalkSiblings(nodes, siblings, hops) ==
    IF hops = 0 THEN siblings
    ELSE IF siblings = NullNode THEN WalkSiblings(nodes, NullNode, hops - 1)
    ELSE IF siblings = UndefinedNode THEN [kind |-> "throw", key |-> ""]
    ELSE WalkSiblings(nodes, NextSibling(nodes, siblings), hops - 1)

\* One addition: the element of the new item gets its key and is inserted
\* after the previous sibling of the node the walk ends at, if the walk ends
\* at a node; then the created hook of the item is called.
ApplyAddition(st, addition, child) ==
    LET siblings == WalkSiblings(st.nodes, child, addition.index)
    IN  IF siblings.kind = "throw" THEN [st EXCEPT !.threw = TRUE]
        ELSE IF siblings \in {NullNode, UndefinedNode}
        THEN [st EXCEPT !.created = @ + 1]
        ELSE LET r == InsertAfter(st.nodes, ItemNode(addition.key),
                                  PreviousSibling(st.nodes, siblings))
             IN  IF r.threw THEN [st EXCEPT !.threw = TRUE]
                 ELSE [st EXCEPT !.nodes = r.nodes, !.created = @ + 1]

\* additions.forEach: an exception ends the loop.
RECURSIVE ApplyAdditions(_, _, _)
ApplyAdditions(st, additions, child) ==
    IF additions = <<>> \/ st.threw THEN st
    ELSE ApplyAdditions(ApplyAddition(st, Head(additions), child), Tail(additions), child)

\* The node the slot addresses: the child of the parent at the index the path
\* of the slot records, undefined if there is no such child.
Addressed(nodes, path) == IF path \in 1 .. Len(nodes) THEN nodes[path] ELSE UndefinedNode

\* commitKeyedArray with initial = false.
CommitIncremental(nodes, child, oldKeys, newKeys) ==
    LET differences == KeyedDiff(oldKeys, newKeys)
        removed == ApplyDeletions(nodes, differences.deletions)
    IN  ApplyAdditions([nodes |-> removed, threw |-> FALSE, created |-> 0],
                       differences.additions, child)

\* commitKeyedArray with initial = true, one item: the first item replaces
\* the marker comment, every other item is inserted after the one before it.
\* For a component the node injected is its element, which got the key, and
\* created is called; for a nested template the clone gets the key and is
\* repainted, and the node injected is item.element.
InjectItem(st, key, items) ==
    LET rep == IF items = "mosaic" THEN ItemNode(key) ELSE TemplateElement(key)
        calls == IF items = "mosaic" THEN 1 ELSE 0
    IN  IF st.threw THEN st
        ELSE IF st.reference = UndefinedNode THEN [st EXCEPT !.threw = TRUE]
        ELSE IF st.reference.kind = "marker"
        THEN [st EXCEPT !.nodes = [st.nodes EXCEPT ![PosOf(st.nodes, st.reference)] = rep],
                        !.reference = rep, !.created = @ + calls]
        ELSE LET r == InsertAfter(st.nodes, rep, st.reference)
             IN  IF r.threw THEN [st EXCEPT !.threw = TRUE]
                 ELSE [st EXCEPT !.nodes = r.nodes, !.reference = rep,
                                 !.created = @ + calls]

RECURSIVE InjectItems(_, _, _)
InjectItems(st, keys, items) ==
    IF keys = <<>> THEN st
    ELSE InjectItems(InjectItem(st, Head(keys), items), Tail(keys), items)

\* commitKeyedArray with initial = true; reading the items of an undefined old
\* value is a TypeError.
CommitInitial(nodes, child, oldKeys, newKeys, items) ==
    IF oldKeys = UndefinedKeys
    THEN [nodes |-> nodes, threw |-> TRUE, created |-> 0, reference |-> child]
    ELSE InjectItems([nodes |-> nodes, threw |-> FALSE, created |-> 0, reference |-> child],
                     newKeys, items)

\* The index of the marker of the slot among the child nodes of the template.
SlotPath(nodes) == PosOf(nodes, MarkerNode)

\* The first commit of the list slot: the initial render of a list whose
\* items are components ("mosaic") or nested templates ("template").
KeyedInitial(newKeys, items) ==
    /\ kLast = <<>>
    /\ LET child == Addressed(kDom, SlotPath(kDom))
           r == CommitInitial(kDom, child, kOld, newKeys, items)
       IN  /\ kDom' = r.nodes
           /\ kOld' = (IF r.threw THEN kOld ELSE newKeys)
           /\ kLast' = <<[initial |-> TRUE, items |-> items, old |-> kOld, new |-> newKeys,
                          path |-> SlotPath(kDom), before |-> KeyedNodes(kDom),
                          diff |-> [deletions |-> <<>>, additions |-> <<>>],
                          threw |-> r.threw, created |-> r.created]>>
    /\ UNCHANGED <<kRounds, compVars, chVars, cmpVars, auxVars>>

\* A later commit of the list slot: the slot is addressed by its path again,
\* and the old value is the keyed array of the render before. The lists
\* committed again are lists of components.
KeyedIncremental(newKeys) ==
    /\ kLast # <<>>
    /\ kLast[1].items = "mosaic"
    /\ kOld # UndefinedKeys
    /\ kRounds < MaxRounds
    /\ LET path == kLast[1].path
           child == Addressed(kDom, path)
           r == CommitIncremental(kDom, child, kOld, newKeys)
       IN  /\ kDom' = r.nodes
           /\ kOld' = (IF r.threw THEN kOld ELSE newKeys)
           /\ kLast' = <<[initial |-> FALSE, items |-> "mosaic", old |-> kOld, new |-> newKeys,
                          path |-> path, before |-> KeyedNodes(kDom),
                          diff |-> KeyedDiff(kOld, newKeys),
                          threw |-> r.threw, created |-> r.created]>>
    /\ kRounds' = kRounds + 1
    /\ UNCHANGED <<compVars, chVars, cmpVars, auxVars>>

\* The parent of the list as cloned from the template: the marker of the
\* slot, with or without a static sibling before and after it. The caller
\* holds undefined, or an empty keyed array, as the old value.
InitKeyed ==
    /\ ComponentIdle
    /\ ChangedIdle
    /\ CompilerIdle
    /\ AuxIdle
    /\ kDom \in {before \o <<MarkerNode>> \o after :
                   before \in {<<>>, <<StaticNode("p")>>},
                   after \in {<<>>, <<StaticNode("s")>>}}
    /\ kOld \in {UndefinedKeys, <<>>}
    /\ kRounds = 0
    /\ kLast = <<>>

NextKeyed ==
    \/ \E newKeys \in KeySeqs : \E items \in {"mosaic", "template"} :
          KeyedInitial(newKeys, items)
    \/ \E newKeys \in KeySeqs : KeyedIncremental(newKeys)

SpecKeyed == InitKeyed /\ [][NextKeyed]_vars

\* ----------------------------------------- compilation and discovery
\* Markup is a sequence of tokens: "<div" opens a tag, " " name "=" "\"" open
\* an attribute value, "x", " " and ";" are text, "\"" closes the value, ">"
\* ends the opening tag, "</div>" closes the element. A template literal is
\* markup with "HOLE" where a value is interpolated; MarkerToken is nodeMarker.
MarkerToken == "<!--marker-->"
AttributeNames == {"class", "style", "onclick"}

\* The items a template literal of the model is made of, side by side: a hole
\* in node position, a static element, an element around a hole, an element
\* with a hole in an attribute value (after the static text pre, before the
\* static text post) and with or without a hole as its child.
HoleItem == [kind |-> "hole", name |-> "", pre |-> <<>>, post |-> <<>>, child |-> FALSE]
StaticItem == [kind |-> "static", name |-> "", pre |-> <<>>, post |-> <<>>, child |-> FALSE]
WrapperItem == [kind |-> "static", name |-> "", pre |-> <<>>, post |-> <<>>, child |-> TRUE]
TemplateItems ==
    {HoleItem, StaticItem, WrapperItem} \cup
    [kind : {"element"}, name : AttributeNames,
     pre : {<<>>, <<"x", " ">>, <<"x">>}, post : {<<>>, <<"x">>}, child : BOOLEAN]

ItemTokens(item) ==
    IF item.kind = "hole" THEN <<"HOLE">>
    ELSE <<"<div">>
         \o (IF item.kind = "element"
             THEN <<" ", item.name, "=", "\"">> \o item.pre \o <<"HOLE">> \o item.post \o <<"\"">>
             ELSE <<>>)
         \o <<">">> \o (IF item.child THEN <<"HOLE">> ELSE <<>>) \o <<"</div>">>

RECURSIVE LiteralTokens(_)
LiteralTokens(items) ==
    IF items = <<>> THEN <<>> ELSE ItemTokens(Head(items)) \o LiteralTokens(Tail(items))

\* The strings of the tagged template literal: the text between the holes.
RECURSIVE Strings(_, _)
Strings(tokens, current) ==
    IF tokens = <<>> THEN <<current>>
    ELSE IF Head(tokens) = "HOLE" THEN <<current>> \o Strings(Tail(tokens), <<>>)
    ELSE Strings(Tail(tokens), Append(current, Head(tokens)))

\* Where the i-th value of the literal is interpolated: the kind of slot, the
\* child-index path of the node, the attribute name.
ItemTargets(item, j) ==
    (IF item.kind = "hole" THEN <<[type |-> "node", steps |-> <<j - 1>>, name |-> ""]>>
     ELSE IF item.kind = "element"
     THEN <<[type |-> "attribute", steps |-> <<j - 1>>, name |-> item.name]>>
     ELSE <<>>)
    \o (IF item.child THEN <<[type |-> "node", steps |-> <<j - 1, 0>>, name |-> ""]>> ELSE <<>>)

RECURSIVE Targets(_, _)
Targets(items, j) ==
    IF j > Len(items) THEN <<>> ELSE ItemTargets(items[j], j) \o Targets(items, j + 1)

\* lastAttributeNameRegex of util on a string: an attribute left open at the
\* end of the string, whitespace, name, "=" and the quoted text so far;
\* index 0 stands for no match (exec returns null).
AttributeOpenAt(str, q) ==
    /\ q + 3 <= Len(str)
    /\ str[q] = " "
    /\ str[q + 1] \in AttributeNames
    /\ str[q + 2] = "="
    /\ str[q + 3] = "\""
    /\ \A r \in q + 4 .. Len(str) : str[r] # "\""

LastAttributeNameMatch(str) ==
    IF \E q \in 1 .. Len(str) : AttributeOpenAt(str, q)
    THEN LET q == CHOOSE q \in 1 .. Len(str) : AttributeOpenAt(str, q)
         IN  [index |-> q, g1 |-> <<str[q]>>, g2 |-> <<str[q + 1]>>,
              g3 |-> SubSeq(str, q + 2, Len(str))]
    ELSE [index |-> 0, g1 |-> <<>>, g2 |-> <<>>, g3 |-> <<>>]

\* buildHTML(strings).
RECURSIVE BuildHTMLFrom(_, _)
BuildHTMLFrom(strings, i) ==
    IF i >= Len(strings) THEN strings[Len(strings)]
    ELSE LET str == strings[i]
             attributeMatch == LastAttributeNameMatch(str)
         IN  (IF attributeMatch.index = 0 THEN str \o <<MarkerToken>>
              ELSE SubSeq(str, 1, attributeMatch.index - 1) \o attributeMatch.g1
                   \o attributeMatch.g2 \o attributeMatch.g3 \o <<MarkerToken>>)
             \o BuildHTMLFrom(strings, i + 1)

BuildHTML(strings) == BuildHTMLFrom(strings, 1)

\* template.innerHTML = markup: the parser of the host. A node is a comment
\* or an element with its attributes and its child nodes.
CommentNode == [kind |-> "comment", attrs |-> <<>>, children |-> <<>>]

\* The attribute value that starts at token i: up to the closing quote.
RECURSIVE ValueEnd(_, _)
ValueEnd(tokens, i) ==
    IF i > Len(tokens) \/ tokens[i] = "\"" THEN i ELSE ValueEnd(tokens, i + 1)

\* The attributes of the opening tag from token i, and the token after ">".
RECURSIVE ParseAttrs(_, _, _)
ParseAttrs(tokens, i, attrs) ==
    IF i > Len(tokens) THEN [attrs |-> attrs, next |-> i]
    ELSE IF tokens[i] = ">" THEN [attrs |-> attrs, next |-> i + 1]
    ELSE IF tokens[i] = " " /\ i + 3 <= Len(tokens)
    THEN LET e == ValueEnd(tokens, i + 4)
         IN  ParseAttrs(tokens, e + 1,
                        Append(attrs, [name |-> tokens[i + 1],
                                       value |-> SubSeq(tokens, i + 4, e - 1)]))
    ELSE ParseAttrs(tokens, i + 1, attrs)

\* The child nodes from token i up to the closing tag or the end.
RECURSIVE ParseNodes(_, _, _)
ParseNodes(tokens, i, nodes) ==
    IF i > Len(tokens) THEN [nodes |-> nodes, next |-> i]
    ELSE IF tokens[i] = "</div>" THEN [nodes |-> nodes, next |-> i + 1]
    ELSE IF tokens[i] = MarkerToken
    THEN ParseNodes(tokens, i + 1, Append(nodes, CommentNode))
    ELSE IF tokens[i] = "<div"
    THEN LET a == ParseAttrs(tokens, i + 1, <<>>)
             c == ParseNodes(tokens, a.next, <<>>)
         IN  ParseNodes(tokens, c.next,
                        Append(nodes, [kind |-> "element", attrs |-> a.attrs,
                                       children |-> c.nodes]))
    ELSE ParseNodes(tokens, i + 1, nodes)

ParseMarkup(tokens) == ParseNodes(tokens, 1, <<>>).nodes

\* value.split(separator).filter(str => str.length > 0)
RECURSIVE SplitValue(_, _, _)
SplitValue(value, separator, current) ==
    IF value = <<>> THEN (IF current = <<>> THEN <<>> ELSE <<current>>)
    ELSE IF Head(value) = separator
    THEN (IF current = <<>> THEN <<>> ELSE <<current>>) \o SplitValue(Tail(value), separator, <<>>)
    ELSE SplitValue(Tail(value), separator, Append(current, Head(value)))

\* parseAttributes(node, steps), one attribute: a memory for every part of
\* the split value that is the marker and nothing else.
AttributeMemories(attr, steps) ==
    IF \A r \in 1 .. Len(attr.value) : attr.value[r] # MarkerToken THEN <<>>
    ELSE LET split == SplitValue(attr.value, IF attr.name = "style" THEN ";" ELSE " ", <<>>)
             dynamic == SelectSeq(split, LAMBDA item : item = <<MarkerToken>>)
         IN  [j \in 1 .. Len(dynamic) |->
                 [type |-> "attribute", steps |-> steps, name |-> attr.name,
                  isEvent |-> attr.name = "onclick", isComponentType |-> cDefined]]

RECURSIVE ParseAttributes(_, _, _)
ParseAttributes(node, steps, i) ==
    IF i > Len(node.attrs) THEN <<>>
    ELSE AttributeMemories(node.attrs[i], steps) \o ParseAttributes(node, steps, i + 1)

\* parseNode(node, steps): a memory for a marker comment; a comment is no
\* custom element, its parent element, if it has one, may be.
ParseNodeByDefinition(node, steps) ==
    <<[type |-> IF cDefined THEN "component" ELSE "node", steps |-> steps, name |-> "",
       isEvent |-> FALSE, isComponentType |-> Len(steps) > 1 /\ cDefined]>>

ParseNode(node, steps) ==
    <<[type |-> "node", steps |-> steps, name |-> "", isEvent |-> FALSE,
       isComponentType |-> Len(steps) > 1 /\ cDefined]>>

\* memorize: traverse visits the nodes in document order, each with the path
\* of child indexes that leads to it.
RECURSIVE Traverse(_, _, _)
Traverse(nodes, steps, i) ==
    IF i > Len(nodes) THEN <<>>
    ELSE LET node == nodes[i]
             here == Append(steps, i - 1)
         IN  (IF node.kind = "element"
              THEN ParseAttributes(node, here, 1) \o Traverse(node.children, here, 1)
              ELSE ParseNode(node, here))
             \o Traverse(nodes, steps, i + 1)

Memorize(nodes) == Traverse(nodes, <<>>, 1)

\* getTemplate, the compilation: the view gives the strings, buildHTML the
\* markup.
Compile ==
    /\ cPhase = "view"
    /\ cHtml' = BuildHTML(cStrings)
    /\ cPhase' = "compiled"
    /\ UNCHANGED <<cItems, cStrings, cMemories, cValues, cDefined, cFirst,
                   compVars, chVars, keyVars, auxVars>>

\* getTemplate, the discovery: the markup is parsed into the template and
\* memorized.
Discover ==
    /\ cPhase = "compiled"
    /\ cMemories' = Memorize(ParseMarkup(cHtml))
    /\ cPhase' = "memorized"
    /\ UNCHANGED <<cItems, cStrings, cHtml, cValues, cDefined, cFirst,
                   compVars, chVars, keyVars, auxVars>>

\* getTemplate called again for the type and not finding the template: the
\* view is called again and gives the same strings, with whatever values the
\* data now give; custom elements may have been defined in between.
Reacquire ==
    /\ cPhase = "memorized"
    /\ cFirst = <<>>
    /\ cFirst' = <<[html |-> cHtml, memories |-> cMemories]>>
    /\ cValues' \in {1, 2}
    /\ cDefined' \in BOOLEAN
    /\ cHtml' = <<>>
    /\ cMemories' = <<>>
    /\ cPhase' = "view"
    /\ UNCHANGED <<cItems, cStrings, compVars, chVars, keyVars, auxVars>>

InitCompile ==
    /\ ComponentIdle
    /\ ChangedIdle
    /\ KeyedIdle
    /\ AuxIdle
    /\ cItems \in UNION {[1 .. n -> TemplateItems] : n \in 1 .. MaxItems}
    /\ cStrings = Strings(LiteralTokens(cItems), <<>>)
    /\ cHtml = <<>>
    /\ cMemories = <<>>
    /\ cPhase = "view"
    /\ cValues = 1
    /\ cDefined = FALSE
    /\ cFirst = <<>>

NextCompile == Compile \/ Discover \/ Reacquire

SpecCompile == InitCompile /\ [][NextCompile]_vars

\* ------------------------------------------- the call stack of repaint
\* The calls of repaint() of one connected component that have not returned.
\* A frame is one call: the value array its view returned and the slot its
\* walk is at. The last frame is the call that is running.
Frame(by, values) == [by |-> by, values |-> values, pos |-> 1]

\* The call that is running.
Top == rStack[Len(rStack)]

\* Whether committing the slot the running call is at runs a created hook:
\* the slot is a node slot, which the walk always commits, and its value is a
\* component instance.
HookRuns ==
    /\ rStack # <<>>
    /\ Top.pos <= Len(rMems)
    /\ rMems[Top.pos].type = "node"
    /\ Top.values[Top.pos].t = "mosaic"

\* The setter of tracked data property i, called by the application while no
\* repaint runs: this.data[name] = nv; this.repaint().
StackSet(i, nv) ==
    /\ rStack = <<>>
    /\ rSets < MaxAssigns
    /\ i \in 1 .. Len(rMems)
    /\ nv \in SlotValues(rMems[i], i)
    /\ rData' = [rData EXCEPT ![i] = nv]
    /\ rStack' = <<Frame("caller", rData')>>
    /\ rLastView' = rData'
    /\ rSets' = rSets + 1
    /\ UNCHANGED <<rMems, rOldValues, rReturned, notStack>>

\* One slot of the walk of the running call, whose commit assigns nothing.
StackWalk ==
    /\ rStack # <<>>
    /\ Top.pos <= Len(rMems)
    /\ rStack' = [rStack EXCEPT ![Len(rStack)].pos = @ + 1]
    /\ UNCHANGED <<rMems, rData, rOldValues, rSets, rReturned, rLastView, notStack>>

\* One slot of the walk whose commit runs the created hook of the committed
\* instance, and the hook assigns tracked data property i of the component
\* that is being repainted (its parent): the setter calls repaint() at once.
\* The walk of the calling frame goes on with its next slot when the new call
\* has returned.
StackHookSet(i, nv) ==
    /\ HookRuns
    /\ rSets < MaxAssigns
    /\ i \in 1 .. Len(rMems)
    /\ nv \in SlotValues(rMems[i], i)
    /\ rData' = [rData EXCEPT ![i] = nv]
    /\ rStack' = Append([rStack EXCEPT ![Len(rStack)].pos = @ + 1], Frame("hook", rData'))
    /\ rLastView' = rData'
    /\ rSets' = rSets + 1
    /\ UNCHANGED <<rMems, rOldValues, rReturned, notStack>>

\* The running call has walked every slot: this.oldValues = newValues, return.
StackReturn ==
    /\ rStack # <<>>
    /\ Top.pos > Len(rMems)
    /\ rOldValues' = Top.values
    /\ rStack' = SubSeq(rStack, 1, Len(rStack) - 1)
    /\ rReturned' = rReturned + 1
    /\ UNCHANGED <<rMems, rData, rSets, rLastView, notStack>>

\* A connected component after its first repaint.
InitStack ==
    /\ ComponentIdle
    /\ ChangedIdle
    /\ KeyedIdle
    /\ CompilerIdle
    /\ ListIdle
    /\ FlushIdle
    /\ SlotsIdle
    /\ rMems \in SlotLists
    /\ rData \in {d \in [1 .. Len(rMems) -> UNION {SlotValues(rMems[i], i) :
                                                    i \in 1 .. Len(rMems)}] :
                    \A i \in 1 .. Len(rMems) : d[i] \in SlotValues(rMems[i], i)}
    /\ rOldValues = rData
    /\ rStack = <<>>
    /\ rSets = 0
    /\ rReturned = 0
    /\ rLastView = rData

NextStack ==
    \/ \E i \in 1 .. MaxSlots :
          \E nv \in UNION {SlotValues(SlotMemories(i)[j], i) : j \in 1 .. 4} :
              StackSet(i, nv)
    \/ StackWalk
    \/ \E i \in 1 .. MaxSlots :
          \E nv \in UNION {SlotValues(SlotMemories(i)[j], i) : j \in 1 .. 4} :
              StackHookSet(i, nv)
    \/ StackReturn

SpecStack == InitStack /\ [][NextStack]_vars

\* ---------------------------------------------------------- Mosaic.list
\* The items a list is built from, and the key and map functions of the
\* model: key function 1 gives the item itself, key function 2 its parity;
\* map function 1 renders the item with its index, map function 2 without.
ListItems == {1, 2, 3}
KeyFunctions == {1, 2}
MapFunctions == {1, 2}
KeyOf(key, itm) == IF key = 1 THEN itm ELSE itm % 2
MapOf(map, itm, index) == [item |-> itm, index |-> IF map = 1 THEN index ELSE 0]

\* Mosaic.list(items, key, map): the object literal it returns.
List(items, key, map) ==
    LET keys == [i \in 1 .. Len(items) |-> KeyOf(key, items[i])]
        mapped == [i \in 1 .. Len(items) |-> MapOf(map, items[i], i - 1)]
    IN  [keys |-> keys, items |-> mapped, isKeyedArray |-> TRUE]

\* object.name: the value of the property, undefined if the object has none.
Property(object, name) ==
    IF name \in DOMAIN object
    THEN [defined |-> TRUE, value |-> object[name]]
    ELSE [defined |-> FALSE, value |-> <<>>]

\* The call of Mosaic.list by a view.
BuildList ==
    /\ lList = <<>>
    /\ lList' = <<List(lItems, lKey, lMap)>>
    /\ UNCHANGED <<lItems, lKey, lMap, lRead, notList>>

\* commitKeyedArray, step 1, on the new value: value.items, value.keys,
\* value.mapped.
ReadList ==
    /\ lList # <<>>
    /\ lRead = <<>>
    /\ lRead' = <<[newItems |-> Property(lList[1], "items"),
                   newKeys |-> Property(lList[1], "keys"),
                   newMapped |-> Property(lList[1], "mapped")]>>
    /\ UNCHANGED <<lItems, lKey, lMap, lList, notList>>

InitList ==
    /\ ComponentIdle
    /\ ChangedIdle
    /\ KeyedIdle
    /\ CompilerIdle
    /\ StackIdle
    /\ FlushIdle
    /\ SlotsIdle
    /\ lItems \in UNION {[1 .. n -> ListItems] : n \in 0 .. MaxItems}
    /\ lKey \in KeyFunctions
    /\ lMap \in MapFunctions
    /\ lList = <<>>
    /\ lRead = <<>>

NextList == BuildList \/ ReadList

SpecList == InitList /\ [][NextList]_vars

\* ------------------------------------- the flush of nested components
\* _repaint of a parent: the walk over the slots, in which a commit may touch
\* a nested component, enter it in nestedNodes and add to its batches; then
\* the loop over nestedNodes.
Nested == {1, 2}
NoBatches == [attributes |-> 0, data |-> 0]

\* What the commit of one slot leaves in nestedNodes and in the batches of
\* the nested component k it touches (k = 0: it touches none): a pending
\* attribute changes and d pending data changes.
Enqueue(nested, k) ==
    IF k = 0 \/ \E j \in 1 .. Len(nested) : nested[j] = k THEN nested ELSE Append(nested, k)

AddBatches(batches, k, a, d) ==
    IF k = 0 THEN batches
    ELSE [batches EXCEPT ![k] = [attributes |-> @.attributes + a, data |-> @.data + d]]

\* The calls one round of the loop over nestedNodes makes on the component:
\* received, if it has the hook and attribute changes are pending, then set,
\* if data changes are pending.
FlushCallsSetFirst(k, batches, received) ==
    (IF batches[k].data > 0 THEN <<[op |-> "set", at |-> k]>> ELSE <<>>)
    \o (IF received[k] /\ batches[k].attributes > 0
        THEN <<[op |-> "received", at |-> k]>> ELSE <<>>)

FlushCalls(k, batches, received) ==
    (IF received[k] /\ batches[k].attributes > 0
     THEN <<[op |-> "received", at |-> k]>> ELSE <<>>)
    \o (IF batches[k].data > 0 THEN <<[op |-> "set", at |-> k]>> ELSE <<>>)

\* What the calls of one round hand to the component: received gets all the
\* pending attribute changes, set all the pending data changes.
HandedOverTogether(k, batches, received) ==
    IF received[k] /\ batches[k].attributes > 0
    THEN [attributes |-> batches[k].attributes, data |-> batches[k].data]
    ELSE NoBatches

HandedOver(k, batches, received) ==
    [attributes |-> IF received[k] THEN batches[k].attributes ELSE 0,
     data |-> batches[k].data]

\* One slot of the walk.
FlushWalk(k, a, d) ==
    /\ fPhase = "walk"
    /\ fPos <= fSlots
    /\ k = 0 => (a = 0 /\ d = 0)
    /\ fNested' = Enqueue(fNested, k)
    /\ fBatches' = AddBatches(fBatches, k, a, d)
    /\ fEnqueued' = AddBatches(fEnqueued, k, a, d)
    /\ fLog' = Append(fLog, [op |-> "slot", at |-> fPos])
    /\ fPos' = fPos + 1
    /\ fPhase' = (IF fPos = fSlots THEN "flush" ELSE "walk")
    /\ UNCHANGED <<fSlots, fReceived, fPassed, fNext, notFlush>>

\* One slot of the walk whose commit throws: nothing in _repaint catches the
\* exception, which leaves the walk and _repaint.
FlushThrow ==
    /\ fPhase = "walk"
    /\ fPos <= fSlots
    /\ fLog' = Append(fLog, [op |-> "throw", at |-> fPos])
    /\ fPhase' = "thrown"
    /\ UNCHANGED <<fSlots, fReceived, fPos, fNested, fBatches, fEnqueued, fPassed, fNext,
                   notFlush>>

\* One round of the loop over nestedNodes: the calls, then the batches of the
\* component are emptied.
FlushComponent ==
    /\ fPhase = "flush"
    /\ fNext <= Len(fNested)
    /\ fLog' = fLog \o FlushCalls(fNested[fNext], fBatches, fReceived)
    /\ fPassed' = [fPassed EXCEPT ![fNested[fNext]] =
                      [attributes |-> @.attributes
                                      + HandedOver(fNested[fNext], fBatches, fReceived).attributes,
                       data |-> @.data
                                + HandedOver(fNested[fNext], fBatches, fReceived).data]]
    /\ fBatches' = [fBatches EXCEPT ![fNested[fNext]] = NoBatches]
    /\ fNext' = fNext + 1
    /\ UNCHANGED <<fSlots, fReceived, fPos, fNested, fEnqueued, fPhase, notFlush>>

\* The loop is over: _repaint returns.
FlushReturn ==
    /\ fPhase = "flush"
    /\ fNext > Len(fNested)
    /\ fPhase' = "returned"
    /\ UNCHANGED <<fSlots, fReceived, fPos, fNested, fBatches, fEnqueued, fPassed, fNext,
                   fLog, notFlush>>

InitFlush ==
    /\ ComponentIdle
    /\ ChangedIdle
    /\ KeyedIdle
    /\ CompilerIdle
    /\ StackIdle
    /\ ListIdle
    /\ SlotsIdle
    /\ fSlots \in 1 .. MaxSlots
    /\ fReceived \in [Nested -> BOOLEAN]
    /\ fPos = 1
    /\ fNested = <<>>
    /\ fBatches = [k \in Nested |-> NoBatches]
    /\ fEnqueued = [k \in Nested |-> NoBatches]
    /\ fPassed = [k \in Nested |-> NoBatches]
    /\ fNext = 1
    /\ fPhase = "walk"
    /\ fLog = <<>>

NextFlush ==
    \/ \E k \in Nested \cup {0} : \E a, d \in 0 .. 1 : FlushWalk(k, a, d)
    \/ FlushThrow
    \/ FlushComponent
    \/ FlushReturn

SpecFlush == InitFlush /\ [][NextFlush]_vars


\* ------------------------------------------- slot descriptors over repaints
\* The paths discovery may record: they lead from the document fragment.
TemplatePaths == {<<0>>, <<0, 0>>, <<0, 1, 0>>}

\* The slot lists of compiled templates, each slot with a recorded path.
DescriptorLists ==
    {[i \in 1 .. Len(m) |-> [m[i] EXCEPT !.steps = p[i]]] :
        m \in SlotLists, p \in [1 .. MaxSlots -> TemplatePaths]}

\* splice(0, 1): the array without its first element.
Splice(steps) == IF steps = <<>> THEN <<>> ELSE Tail(steps)

\* The path _repaint steps along for a slot, and the descriptor after it
\* has: the path is a copy (slice) of the recorded steps, and a one-time
\* template drops the first step of the copy.
StepsOfInPlace(mem, shadow, isOTT) ==
    IF ~shadow /\ isOTT
    THEN [steps |-> Splice(mem.steps), memory |-> [mem EXCEPT !.steps = Splice(@)]]
    ELSE [steps |-> mem.steps, memory |-> mem]
StepsOf(mem, shadow, isOTT) ==
    LET copy == mem.steps
    IN  [steps |-> (IF ~shadow /\ isOTT THEN Splice(copy) ELSE copy), memory |-> mem]

\* The path commit itself walks from the element: the recorded steps from the
\* third on.
CommitSteps(mem) == SubSeq(mem.steps, 3, Len(mem.steps))

\* _repaint of one instance of the template: every slot's path is derived and
\* the slot is committed.
RepaintSlots(shadow, isOTT) ==
    /\ Len(oModes) < MaxRepaints
    /\ oMems' = [i \in 1 .. Len(oMems) |-> StepsOf(oMems[i], shadow, isOTT).memory]
    /\ oPointers' = [i \in 1 .. Len(oMems) |->
                       [pointer |-> StepsOf(oMems[i], shadow, isOTT).steps,
                        child |-> CommitSteps(StepsOf(oMems[i], shadow, isOTT).memory)]]
    /\ oModes' = Append(oModes, IF shadow THEN "shadow"
                                ELSE IF isOTT THEN "ott" ELSE "regular")
    /\ UNCHANGED <<oFound, notSlots>>

InitSlots ==
    /\ ComponentIdle
    /\ ChangedIdle
    /\ KeyedIdle
    /\ CompilerIdle
    /\ StackIdle
    /\ ListIdle
    /\ FlushIdle
    /\ oMems \in DescriptorLists
    /\ oFound = oMems
    /\ oModes = <<>>
    /\ oPointers = <<>>

NextSlots == \E shadow \in BOOLEAN, isOTT \in BOOLEAN : RepaintSlots(shadow, isOTT)

SpecSlots == InitSlots /\ [][NextSlots]_vars

\* ------------------------------------------------------------ claims
\* C1: over any sequence of template acquisitions for one component type id
\* the compile-and-discover pass is made at most once.
C1_AtMostOneCompile == compiles <= 1

AttributeSlotsTruthyPrimitives ==
    \A i \in 1 .. Len(memories) :
        /\ memories[i].type = "attribute"
        /\ IsPrimitive(At(oldValues, i))
        /\ ~Falsy(At(oldValues, i))

C7_BooleanAttribute ==
    \A i \in 1 .. Len(memories) :
        (/\ memories[i].type = "attribute"
         /\ IsBooleanAttribute(memories[i].name)
         /\ lastCommit[i] # NoCommit)
        => (dom[i].present <=> lastCommit[i] = Bool(TRUE))

C7_Witness ==
    \E i \in 1 .. Len(memories) :
        /\ memories[i].type = "attribute"
        /\ IsBooleanAttribute(memories[i].name)
        /\ repaints >= 3
        /\ lastCommit[i] = Str(3)
        /\ ~dom[i].present

\* C9: every assignment to a tracked data property has run one repaint by the
\* time it returns, and that repaint saw the data as the assignment left it.
C9_RepaintPerAssignment ==
    /\ repaints = connects + assigns
    /\ repaints > 0 => (seenData = data /\ oldValues = View(data))

C9_Witness ==
    /\ assigns >= 2
    /\ repaints = connects + assigns
    /\ lastSame
    /\ seenData = data

\* C10: the created hook of a nested instance has run once for each time the
\* instance was mounted.
C10_CreatedOncePerMount == \A k \in Instances : created[k] = mounts[k]
\* C6: for primitive old and new values, old supplied by a prior render and
\* the force flag false, the detector answers dirty exactly if they differ.
C6_PrimitiveDirtyIffDifferent ==
    (/\ chNew # NoCommit
     /\ ~chFirst
     /\ ~chForce
     /\ IsPrimitive(chOld)
     /\ IsPrimitive(chNew))
    => (chDirty <=> chOld # chNew)
\* The last commit was an incremental one that started from a DOM showing the
\* old keys, with old and new keys that keep the order of their common keys.
SameRelativeOrder(oldKeys, newKeys) ==
    SelectSeq(oldKeys, LAMBDA k : k \in Range(newKeys))
        = SelectSeq(newKeys, LAMBDA k : k \in Range(oldKeys))

IncrementalFromRendered ==
    /\ kLast # <<>>
    /\ ~kLast[1].initial
    /\ kLast[1].before = kLast[1].old
    /\ SameRelativeOrder(kLast[1].old, kLast[1].new)

\* C3: after an incremental commit from old keys O to new keys N that keep the
\* order of their common keys, the key-tagged siblings are exactly N, in order.
C3_KeyedNodesAreNewKeys ==
    IncrementalFromRendered => (~kLast[1].threw /\ KeyedNodes(kDom) = kLast[1].new)

\* C4: an addition to a rendered, non-empty list whose index is at least the
\* old length raises no error and puts the new node after the last item that
\* was there, with only added items in between.
C4_AppendAfterLastItem ==
    (IncrementalFromRendered /\ Len(kLast[1].old) > 0) =>
        \A i \in 1 .. Len(kLast[1].diff.additions) :
            LET a == kLast[1].diff.additions[i]
                p == PosOf(kDom, ItemNode(a.key))
            IN  a.index >= Len(kLast[1].old) =>
                    /\ ~kLast[1].threw
                    /\ p > 0
                    /\ \A q \in 1 .. Len(kDom) :
                          (kDom[q].kind = "item" /\ kDom[q].key \in Range(kLast[1].old)) =>
                              /\ q < p
                              /\ \A r \in q + 1 .. p - 1 : kDom[r].kind = "item"

\* C5: the differences of an incremental commit are the old keys that are not
\* new keys, in the old order, and the new keys that are not old keys, each
\* with its position in the new keys.
C5_KeyedDiff ==
    (kLast # <<>> /\ ~kLast[1].initial) =>
        LET old == kLast[1].old
            new == kLast[1].new
            d == kLast[1].diff
        IN  /\ d.deletions = SelectSeq(old, LAMBDA k : k \notin Range(new))
            /\ Range(d.additions) =
                   {[key |-> new[i], index |-> i - 1] : i \in {j \in 1 .. Len(new) : new[j] \notin Range(old)}}
            /\ \A i, j \in 1 .. Len(d.additions) :
                   i < j => d.additions[i].index < d.additions[j].index

C5_Witness ==
    /\ kLast # <<>>
    /\ ~kLast[1].initial
    /\ kLast[1].old = <<"a", "b">>
    /\ kLast[1].new = <<"a", "d">>
    /\ kLast[1].diff = [deletions |-> <<"b">>, additions |-> <<[key |-> "d", index |-> 1]>>]
\* C8: discovery yields one memory for each interpolated value, and the i-th
\* memory addresses the place of the i-th value.
C8_OneMemoryPerValue ==
    cPhase = "memorized" =>
        /\ Len(cMemories) = Len(cStrings) - 1
        /\ \A i \in 1 .. Len(cMemories) :
              [type |-> cMemories[i].type, steps |-> cMemories[i].steps,
               name |-> cMemories[i].name] = Targets(cItems, 1)[i]
\* C11: at most one call of repaint() of the component has not returned, also
\* when a hook run by a commit assigns a tracked data property of it.
C11_OneRepaintInFlight == Len(rStack) <= 1
\* C12: the keyed array Mosaic.list returns has, under the names
\* commitKeyedArray reads, a key sequence and a rendered-item sequence as long
\* as the items, with keys[i] = key(items[i]) and mapped[i] = map(items[i], i).
C12_ListFields ==
    lRead # <<>> =>
        /\ lRead[1].newKeys.defined
        /\ lRead[1].newMapped.defined
        /\ lRead[1].newKeys.value = [i \in 1 .. Len(lItems) |-> KeyOf(lKey, lItems[i])]
        /\ lRead[1].newMapped.value =
              [i \in 1 .. Len(lItems) |-> MapOf(lMap, lItems[i], i - 1)]
\* The kind and the path of every memory, in order.
KindPaths(mems) ==
    [i \in 1 .. Len(mems) |->
        [type |-> mems[i].type, isEvent |-> mems[i].isEvent, steps |-> mems[i].steps]]

C14_FunctionsBySourceText ==
    (/\ chNew # NoCommit
     /\ ~chFirst
     /\ ~chForce
     /\ chOld.t = "function"
     /\ chNew.t = "function")
    => (chDirty <=> FnText[chOld.v] # FnText[chNew.v])

\* The new value is a component of the type of the old one with equal
\* injected data.
SameComponent(oldValue, newValue) ==
    /\ newValue.t = "mosaic"
    /\ InstTid(newValue.v) = InstTid(oldValue.v)
    /\ InstInjected(newValue.v) = InstInjected(oldValue.v)

\* C16: a slot found dirty whose old value is a component instance that the
\* new value does not match has had the old instance torn down, on every path
\* to the answer, the forced one included.
C16_TeardownBeforeCommit ==
    (/\ chNew # NoCommit
     /\ chDirty
     /\ chOld.t = "mosaic"
     /\ ~SameComponent(chOld, chNew))
    => chCleaned
\* C15: every repaint passes the force flag for exactly the node slots and
\* commits every node slot, whether its value changed or not; the first
\* repaint, with no prior values, commits every slot.
C15_NodeSlotsAlwaysCommitted ==
    repaints >= 1 =>
        /\ lastForced = {i \in 1 .. Len(memories) : memories[i].type = "node"}
        /\ lastForced \subseteq lastCommitted
        /\ repaints = 1 => lastCommitted = 1 .. Len(memories)

C15_Witness ==
    /\ repaints >= 2
    /\ lastSame
    /\ \E i \in lastCommitted :
          /\ memories[i].type = "node"
          /\ oldValues[i].t = "mosaic"
    /\ \E i \in 1 .. Len(memories) : i \notin lastCommitted
\* The positions of the log at which op was called on nested component k.
CallsAt(op, k) == {p \in 1 .. Len(fLog) : fLog[p] = [op |-> op, at |-> k]}

\* C17: no received and no set of a nested component is called before the
\* walk has passed its last slot; received is called only with attribute
\* changes pending and before set, set only with data changes pending; and
\* when _repaint returns every pending change has been handed over.
C17_FlushAfterWalk ==
    /\ \A p, q \in 1 .. Len(fLog) :
          (fLog[p].op # "slot" /\ fLog[q].op = "slot") => q < p
    /\ \A k \in Nested :
          /\ \A p \in CallsAt("received", k) : \A q \in CallsAt("set", k) : p < q
          /\ CallsAt("received", k) # {} => (fReceived[k] /\ fEnqueued[k].attributes > 0)
          /\ CallsAt("set", k) # {} => fEnqueued[k].data > 0
          /\ fPhase = "returned" =>
                /\ (fReceived[k] /\ fEnqueued[k].attributes > 0) => CallsAt("received", k) # {}
                /\ fEnqueued[k].data > 0 => CallsAt("set", k) # {}
                /\ fBatches[k] = NoBatches
    /\ (fPhase = "walk" /\ fLog # <<>>) => fLog[Len(fLog)].op = "slot"

C17_Witness ==
    /\ fPhase = "returned"
    /\ fSlots >= 2
    /\ \E k \in Nested : CallsAt("received", k) # {} /\ CallsAt("set", k) # {}
    /\ \E k \in Nested : CallsAt("received", k) = {} /\ CallsAt("set", k) # {}
\* C18: after the initial commit of a keyed list of n >= 1 items the marker
\* is gone and in its place stand n nodes, the i-th being the root of item i
\* with key i as its key attribute.
C18_InitialKeyedCommit ==
    (kLast # <<>> /\ kLast[1].initial /\ Len(kLast[1].new) >= 1) =>
        LET new == kLast[1].new
            p == kLast[1].path
        IN  /\ ~kLast[1].threw
            /\ \A q \in 1 .. Len(kDom) : kDom[q].kind # "marker"
            /\ Len(kDom) >= p + Len(new) - 1
            /\ \A i \in 1 .. Len(new) : kDom[p + i - 1] = ItemNode(new[i])
            /\ KeyedNodes(kDom) = new
\* The keys that stand at another position in the new keys than in the old.
MovedKeys(oldKeys, newKeys) ==
    {oldKeys[i] : i \in {j \in 1 .. Len(oldKeys) : oldKeys[j] # newKeys[j]}}

\* C19: when the new keys are the old keys in another order, the incremental
\* commit deletes and adds every key that moved.
C19_ReorderDeletesAndAdds ==
    (/\ kLast # <<>>
     /\ ~kLast[1].initial
     /\ Len(kLast[1].old) = Len(kLast[1].new)
     /\ Range(kLast[1].old) = Range(kLast[1].new)
     /\ kLast[1].old # kLast[1].new)
    => LET moved == MovedKeys(kLast[1].old, kLast[1].new)
           d == kLast[1].diff
       IN  /\ Range(d.deletions) = moved
           /\ {d.additions[i].key : i \in 1 .. Len(d.additions)} = moved

C21_OldValuesAreLastView == rStack = <<>> => rOldValues = rLastView
\* C22: a commit that fails is skipped: when the repaint is over every slot
\* has been walked, the one that failed aside, and every nested component
\* that was touched has been flushed.
C22_CommitFailureIsolated ==
    fPhase \in {"returned", "thrown"} =>
        /\ \A i \in 1 .. fSlots : \E p \in 1 .. Len(fLog) : fLog[p].at = i /\ fLog[p].op \in {"slot", "throw"}
        /\ \A k \in Nested : fBatches[k] = NoBatches

\* C26 (as stated): when _repaint returns, the batches of every nested
\* component are empty and everything enqueued was handed to received and to
\* set.
C26_NothingLost ==
    fPhase = "returned" =>
        \A k \in Nested : fBatches[k] = NoBatches /\ fPassed[k] = fEnqueued[k]

\* C26 (amended): ... every enqueued data change was handed to set, and every
\* enqueued attribute change to received if the component has the hook, and
\* to nothing if it has not.
C26_NothingLostWithHook ==
    fPhase = "returned" =>
        \A k \in Nested :
            /\ fBatches[k] = NoBatches
            /\ fPassed[k].data = fEnqueued[k].data
            /\ fPassed[k].attributes = (IF fReceived[k] THEN fEnqueued[k].attributes ELSE 0)

C26_Witness ==
    /\ fPhase = "returned"
    /\ \E k \in Nested :
          /\ fReceived[k]
          /\ fEnqueued[k].attributes > 0
          /\ fEnqueued[k].data > 0
          /\ fPassed[k] = fEnqueued[k]
    /\ \E k \in Nested :
          /\ ~fReceived[k]
          /\ fEnqueued[k].attributes > 0
          /\ fPassed[k].attributes = 0
\* C23: a repaint whose value array is not as long as the slot list ends
\* with a TemplateMismatch error, commits nothing and leaves the old values
\* as they were.
C23_TemplateMismatch ==
    (repaints >= 1 /\ lastLength # Len(memories)) =>
        /\ lastError = "TemplateMismatch"
        /\ lastCommitted = {}
        /\ Len(oldValues) = Len(memories)
\* C24: after any sequence of repaints, of one-time templates too, every
\* descriptor of the slot list has the kind, the path and the attribute name
\* discovery gave it.
C24_DescriptorsUnchanged == oMems = oFound

\* Two repaints of a one-time template have dropped the leading step of a
\* path of two steps or more.
C24_Witness ==
    /\ oModes = <<"ott", "ott">>
    /\ \E i \in 1 .. Len(oMems) :
          /\ Len(oFound[i].steps) >= 2
          /\ oPointers[i].pointer = Tail(oFound[i].steps)
====
